---- MODULE Spec2Model ----
(***************************************************************************)
(* ReplicanteBot.py: a Telegram bot that offers every message posted in    *)
(* the origin group to its author, who picks destination groups with       *)
(* inline buttons and has the message copied to them.                      *)
(*                                                                         *)
(* The Application is built with its defaults (main, line 712), so the     *)
(* dispatcher awaits one handler to completion before it takes the next    *)
(* update: a handler is one atomic action.  The outcomes of the calls a    *)
(* handler makes to Telegram and to the file system are inputs of its      *)
(* action.                                                                 *)
(***************************************************************************)
EXTENDS Integers, Sequences, FiniteSets, TLC

\* ------------------------------------------------------------- bounds
NDests == 2         \* chat ids that can be destination groups
MaxChecks == 1      \* rate-checked updates per user in a run of Spec
MaxOver == 2        \* rate checks per user beyond RATE_LIMIT in a run of SpecRate
MaxTime == 61       \* last clock value of a run of SpecRate
NDestsAdmin == 3    \* chat ids that can be destination groups in a run of SpecAdmin
MaxAdminChecks == 3 \* commands in a run of SpecAdmin
MaxRecebidas == 4   \* updates in a run of SpecPasso
MaxComandos == 2    \* commands in a run of SpecFila

\* ---------------------------------------------------- program constants
MAX_GROUPS == 100
RATE_LIMIT == 20
JANELA == 60

\* ------------------------------------------------------------ universes
Actors == {1, 2}                        \* user ids; 1 administers the loaded config
Dests == {100 * i : i \in 1..NDests}
DestsAdmin == {100 * i : i \in 1..NDestsAdmin}
Chats == {555, 556}                     \* chats in which a message can arrive
Origens == {555}                        \* grupo_origem_id of the loaded config
MsgIds == {41}                          \* message ids of the origin group
PromptIds == {1}                        \* message ids of the private chats
Nomes == {"Alpha", "Beta"}
Saltos == {60, 61}                      \* seconds between two updates, when not 0

VARIABLES
    GRUPO_ORIGEM_ID,          \* line 138
    filtro_chat_id,           \* the chat id the MessageHandler filter was built with
    GRUPOS_DESTINO,           \* line 139, a list
    GRUPOS_INFO,              \* line 141, group id -> name
    ADMIN_IDS,                \* line 140, a list
    config_json,              \* contents of config.json
    MENSAGENS_PARA_REPOSTAR,  \* line 144, prompt message id -> mensagem_info
    rate_counters,            \* line 25, user id -> count, timestamp
    now,                      \* int(time.time())
    ultimo_prompt,            \* user id -> last message id used in the private chat
    botoes,                   \* prompt message id -> the groups it has shown a button for
    em_curso,                 \* the handlers suspended in an await, in the order they started
    fila,                     \* update_queue: the updates received and not yet handled
    recebidas,                \* observer: how many updates the update queue has been given
    evento,                   \* the update handled last
    resposta,                 \* what its handler answered
    copias,                   \* the copy_message calls its handler made
    sucessos, falhas, detalhes_falhas,   \* the locals of its dispatch loop
    marcados,                 \* the buttons its handler rendered with a check mark
    antes,                    \* grupos_selecionados as the button of a group or send found it
    dupla,                    \* whether it and the update before it were the same
                              \* button of one group, select_all then clear_all, or
                              \* select_all then a change of the destinations
    admitido,                 \* what rate_limit_check returned to its handler
    janela                    \* user id -> the window the user is in, as observed

vars == <<GRUPO_ORIGEM_ID, filtro_chat_id, GRUPOS_DESTINO, GRUPOS_INFO, ADMIN_IDS,
          config_json, MENSAGENS_PARA_REPOSTAR, rate_counters, now, ultimo_prompt, botoes,
          evento, resposta, copias, sucessos, falhas, detalhes_falhas, marcados,
          antes, dupla, admitido, janela, em_curso, fila, recebidas>>

registro == <<GRUPO_ORIGEM_ID, GRUPOS_DESTINO, GRUPOS_INFO, ADMIN_IDS, config_json>>
despacho == <<copias, sucessos, falhas, detalhes_falhas>>

\* --------------------------------------------------------------- helpers
Range(s) == {s[i] : i \in 1..Len(s)}

Contem(s, x) == \E i \in 1..Len(s) : s[i] = x

\* a removal that fills the place of x with the last element
RemoveTroca(s, x) ==
    IF ~Contem(s, x) THEN s
    ELSE LET i == CHOOSE k \in 1..Len(s) : s[k] = x /\ \A j \in 1..(k - 1) : s[j] # x
         IN [k \in 1..(Len(s) - 1) |-> IF k = i THEN s[Len(s)] ELSE s[k]]

\* list.remove(x): drops the first occurrence only
RECURSIVE Remove(_, _)
Remove(s, x) ==
    IF s = <<>> THEN <<>>
    ELSE IF Head(s) = x THEN Tail(s)
    ELSE <<Head(s)>> \o Remove(Tail(s), x)

SemChave(f, k) == [x \in DOMAIN f \ {k} |-> f[x]]

Com(f, k, v) == [x \in DOMAIN f \cup {k} |-> IF x = k THEN v ELSE f[x]]

SeqsSemRep(S) ==
    {s \in UNION {[1..n -> S] : n \in 0..Cardinality(S)} :
        \A i, j \in DOMAIN s : i # j => s[i] # s[j]}

\* validate_id (lines 37-46) on the text of an integer: the integer when it
\* lies within -10^12..10^12, as every chat and user id of the model does
validate_id(id) == id

\* is_admin that lets everybody through
is_admin_todos(user_id) == TRUE

\* lines 147-148
is_admin(user_id) == Contem(ADMIN_IDS, user_id)

\* GRUPOS_INFO.get(str(grupo_id), f"Grupo {grupo_id}")
NomeDe(info, grupo_id) ==
    IF grupo_id \in DOMAIN info THEN info[grupo_id] ELSE "Grupo"

\* what salvar_config writes
Sanitizado(origem, grupos, admins, info) ==
    [grupo_origem_id |-> origem,
     grupos_destino |-> SelectSeq(grupos, LAMBDA g : validate_id(g) = g),
     admins |-> SelectSeq(admins, LAMBDA a : validate_id(a) = a),
     grupos_info |-> info]

\* an update as far as its handler acted on it
Evento(tipo, handle, grupo) == [tipo |-> tipo, handle |-> handle, grupo |-> grupo]

\* ---------------------------------------------------------- rate limiter
\* rate_limit_check that denies from the RATE_LIMIT-th check of a window on
rate_limit_check_cedo(contadores, user_id, current_time) ==
    IF user_id \notin DOMAIN contadores
    THEN [permite |-> TRUE,
          contadores |-> Com(contadores, user_id, [count |-> 1, timestamp |-> current_time])]
    ELSE IF current_time - contadores[user_id].timestamp > JANELA
    THEN [permite |-> TRUE,
          contadores |-> Com(contadores, user_id, [count |-> 1, timestamp |-> current_time])]
    ELSE LET count == contadores[user_id].count + 1 IN
         [permite |-> ~(count >= RATE_LIMIT),
          contadores |-> [contadores EXCEPT ![user_id].count = count]]

\* rate_limit_check that never starts a new window
rate_limit_check_sem_reset(contadores, user_id, current_time) ==
    IF user_id \notin DOMAIN contadores
    THEN [permite |-> TRUE,
          contadores |-> Com(contadores, user_id, [count |-> 1, timestamp |-> current_time])]
    ELSE LET count == contadores[user_id].count + 1 IN
         [permite |-> ~(count > RATE_LIMIT),
          contadores |-> [contadores EXCEPT ![user_id].count = count]]

\* rate_limit_check (lines 151-172) for user_id at current_time: what it
\* returns and what it leaves in rate_counters
rate_limit_check(contadores, user_id, current_time) ==
    IF user_id \notin DOMAIN contadores
    THEN [permite |-> TRUE,
          contadores |-> Com(contadores, user_id, [count |-> 1, timestamp |-> current_time])]
    ELSE IF current_time - contadores[user_id].timestamp > JANELA
    THEN [permite |-> TRUE,
          contadores |-> Com(contadores, user_id, [count |-> 1, timestamp |-> current_time])]
    ELSE LET count == contadores[user_id].count + 1 IN
         [permite |-> ~(count > RATE_LIMIT),
          contadores |-> [contadores EXCEPT ![user_id].count = count]]

Checks(user_id) ==
    IF user_id \in DOMAIN rate_counters THEN rate_counters[user_id].count ELSE 0

\* The window of a user as an observer counts it: a check opens a window when
\* it is the user's first or comes more than JANELA after the window opened;
\* n is the number of checks in the window, permitido the answer to the last
\* of them, negou whether one of them was denied, negado_antes whether one of
\* the window before it was.
Observada(j, user_id, current_time, permite) ==
    IF user_id \notin DOMAIN j
    THEN Com(j, user_id, [inicio |-> current_time, n |-> 1, permitido |-> permite,
                          negou |-> ~permite, negado_antes |-> FALSE])
    ELSE IF current_time - j[user_id].inicio > JANELA
    THEN Com(j, user_id, [inicio |-> current_time, n |-> 1, permitido |-> permite,
                          negou |-> ~permite, negado_antes |-> j[user_id].negou])
    ELSE [j EXCEPT ![user_id].n = @ + 1, ![user_id].permitido = permite,
                   ![user_id].negou = @ \/ ~permite]

\* a handler's call of rate_limit_check
Taxa(user_id) ==
    LET r == rate_limit_check(rate_counters, user_id, now) IN
    /\ rate_counters' = r.contadores
    /\ admitido' = r.permite
    /\ janela' = Observada(janela, user_id, now, r.permite)

SemTaxa ==
    /\ admitido' = TRUE
    /\ UNCHANGED <<rate_counters, janela>>

SemDespacho == [copias |-> <<>>, sucessos |-> 0, falhas |-> 0, detalhes_falhas |-> <<>>]

\* what a handler leaves behind: the session store, its answer, the locals of
\* the dispatch loop and the check marks it rendered
Efeito(mensagens, resp, d, marcas) ==
    /\ MENSAGENS_PARA_REPOSTAR' = mensagens
    /\ resposta' = resp
    /\ copias' = d.copias
    /\ sucessos' = d.sucessos
    /\ falhas' = d.falhas
    /\ detalhes_falhas' = d.detalhes_falhas
    /\ marcados' = marcas

\* ajuda (lines 186-223): the rate check and a text
ajuda(user_id) ==
    /\ evento' = Evento("ajuda", 0, 0)
    /\ Taxa(user_id)
    /\ Efeito(MENSAGENS_PARA_REPOSTAR,
              IF admitido' THEN "Ajuda" ELSE "LimiteTaxa", SemDespacho, {})
    /\ antes' = <<>>
    /\ dupla' = "nenhuma"
    /\ UNCHANGED <<registro, filtro_chat_id, now, ultimo_prompt, botoes>>

\* time.time() moves on between two updates
Tick(dt) ==
    /\ now + dt <= MaxTime
    /\ now' = now + dt
    /\ evento' = Evento("tick", 0, 0)
    /\ SemTaxa
    /\ Efeito(MENSAGENS_PARA_REPOSTAR, "Nada", SemDespacho, {})
    /\ antes' = <<>>
    /\ dupla' = "nenhuma"
    /\ UNCHANGED <<registro, filtro_chat_id, ultimo_prompt, botoes>>

\* a write of the configuration as it was when the handler started
salvar_config_anterior(origem, grupos, admins, info, gravou) ==
    config_json' = IF gravou
                   THEN Sanitizado(GRUPO_ORIGEM_ID, GRUPOS_DESTINO, ADMIN_IDS, GRUPOS_INFO)
                   ELSE config_json

\* salvar_config (lines 113-133): gravou tells whether the file was written;
\* an exception is logged and the file stays as it was
salvar_config(origem, grupos, admins, info, gravou) ==
    config_json' = IF gravou THEN Sanitizado(origem, grupos, admins, info) ELSE config_json

\* the membership test that looks at the first destination only
JaNaListaPrimeiro(grupos_destino, grupo_id) ==
    grupos_destino # <<>> /\ Head(grupos_destino) = grupo_id

\* line 286
JaNaLista(grupos_destino, grupo_id) == Contem(grupos_destino, grupo_id)

\* adicionar_grupo (lines 255-304)
adicionar_grupo(user_id, grupo_id, nome_grupo, gravou) ==
    /\ evento' = Evento("adicionargrupo", 0, grupo_id)
    /\ Taxa(user_id)
    /\ antes' = <<>>
    /\ UNCHANGED <<GRUPO_ORIGEM_ID, ADMIN_IDS, filtro_chat_id, now, ultimo_prompt, botoes>>
    /\ IF ~admitido'
       THEN /\ Efeito(MENSAGENS_PARA_REPOSTAR, "LimiteTaxa", SemDespacho, {})
            /\ UNCHANGED <<GRUPOS_DESTINO, GRUPOS_INFO, config_json>>
       ELSE IF ~is_admin(user_id)
       THEN /\ Efeito(MENSAGENS_PARA_REPOSTAR, "SemPermissao", SemDespacho, {})
            /\ UNCHANGED <<GRUPOS_DESTINO, GRUPOS_INFO, config_json>>
       ELSE IF JaNaLista(GRUPOS_DESTINO, validate_id(grupo_id))
       THEN /\ Efeito(MENSAGENS_PARA_REPOSTAR, "JaNaLista", SemDespacho, {})
            /\ UNCHANGED <<GRUPOS_DESTINO, GRUPOS_INFO, config_json>>
       ELSE /\ GRUPOS_DESTINO' = Append(GRUPOS_DESTINO, grupo_id)
            /\ GRUPOS_INFO' = Com(GRUPOS_INFO, grupo_id, nome_grupo)
            /\ salvar_config(GRUPO_ORIGEM_ID, GRUPOS_DESTINO', ADMIN_IDS, GRUPOS_INFO', gravou)
            /\ Efeito(MENSAGENS_PARA_REPOSTAR, "Adicionado", SemDespacho, {})
    /\ dupla' = IF evento.tipo = "select_all" /\ resposta' = "Adicionado"
                THEN "todos_mudanca"
                ELSE "nenhuma"

\* remover_grupo (lines 306-352)
remover_grupo(user_id, grupo_id, gravou) ==
    /\ evento' = Evento("removergrupo", 0, grupo_id)
    /\ Taxa(user_id)
    /\ antes' = <<>>
    /\ UNCHANGED <<GRUPO_ORIGEM_ID, ADMIN_IDS, filtro_chat_id, now, ultimo_prompt, botoes>>
    /\ IF ~admitido'
       THEN /\ Efeito(MENSAGENS_PARA_REPOSTAR, "LimiteTaxa", SemDespacho, {})
            /\ UNCHANGED <<GRUPOS_DESTINO, GRUPOS_INFO, config_json>>
       ELSE IF ~is_admin(user_id)
       THEN /\ Efeito(MENSAGENS_PARA_REPOSTAR, "SemPermissao", SemDespacho, {})
            /\ UNCHANGED <<GRUPOS_DESTINO, GRUPOS_INFO, config_json>>
       ELSE IF ~Contem(GRUPOS_DESTINO, validate_id(grupo_id))
       THEN /\ Efeito(MENSAGENS_PARA_REPOSTAR, "ForaDaLista", SemDespacho, {})
            /\ UNCHANGED <<GRUPOS_DESTINO, GRUPOS_INFO, config_json>>
       ELSE /\ GRUPOS_DESTINO' = Remove(GRUPOS_DESTINO, grupo_id)
            /\ GRUPOS_INFO' = SemChave(GRUPOS_INFO, grupo_id)
            /\ salvar_config(GRUPO_ORIGEM_ID, GRUPOS_DESTINO', ADMIN_IDS, GRUPOS_INFO', gravou)
            /\ Efeito(MENSAGENS_PARA_REPOSTAR, "Removido", SemDespacho, {})
    /\ dupla' = IF evento.tipo = "select_all" /\ resposta' = "Removido"
                THEN "todos_mudanca"
                ELSE "nenhuma"

\* definir_grupo_principal (lines 354-392); the filter of the MessageHandler
\* keeps the chat id main built it with
definir_grupo_principal(user_id, grupo_id, gravou) ==
    /\ evento' = Evento("definirgrupoprincipal", 0, grupo_id)
    /\ Taxa(user_id)
    /\ antes' = <<>>
    /\ dupla' = "nenhuma"
    /\ UNCHANGED <<GRUPOS_DESTINO, GRUPOS_INFO, ADMIN_IDS, filtro_chat_id, now, ultimo_prompt,
                   botoes>>
    /\ IF ~admitido'
       THEN /\ Efeito(MENSAGENS_PARA_REPOSTAR, "LimiteTaxa", SemDespacho, {})
            /\ UNCHANGED <<GRUPO_ORIGEM_ID, config_json>>
       ELSE IF ~is_admin(user_id)
       THEN /\ Efeito(MENSAGENS_PARA_REPOSTAR, "SemPermissao", SemDespacho, {})
            /\ UNCHANGED <<GRUPO_ORIGEM_ID, config_json>>
       ELSE /\ GRUPO_ORIGEM_ID' = validate_id(grupo_id)
            /\ salvar_config(GRUPO_ORIGEM_ID', GRUPOS_DESTINO, ADMIN_IDS, GRUPOS_INFO, gravou)
            /\ Efeito(MENSAGENS_PARA_REPOSTAR, "OrigemDefinida", SemDespacho, {})

\* adicionar_admin (lines 394-436)
adicionar_admin(user_id, admin_id, gravou) ==
    /\ evento' = Evento("adicionaradmin", 0, admin_id)
    /\ Taxa(user_id)
    /\ antes' = <<>>
    /\ dupla' = "nenhuma"
    /\ UNCHANGED <<GRUPO_ORIGEM_ID, GRUPOS_DESTINO, GRUPOS_INFO, filtro_chat_id, now,
                   ultimo_prompt, botoes>>
    /\ IF ~admitido'
       THEN /\ Efeito(MENSAGENS_PARA_REPOSTAR, "LimiteTaxa", SemDespacho, {})
            /\ UNCHANGED <<ADMIN_IDS, config_json>>
       ELSE IF ~is_admin(user_id)
       THEN /\ Efeito(MENSAGENS_PARA_REPOSTAR, "SemPermissao", SemDespacho, {})
            /\ UNCHANGED <<ADMIN_IDS, config_json>>
       ELSE IF Contem(ADMIN_IDS, validate_id(admin_id))
       THEN /\ Efeito(MENSAGENS_PARA_REPOSTAR, "JaAdmin", SemDespacho, {})
            /\ UNCHANGED <<ADMIN_IDS, config_json>>
       ELSE /\ ADMIN_IDS' = Append(ADMIN_IDS, admin_id)
            /\ salvar_config(GRUPO_ORIGEM_ID, GRUPOS_DESTINO, ADMIN_IDS', GRUPOS_INFO, gravou)
            /\ Efeito(MENSAGENS_PARA_REPOSTAR, "AdminAdicionado", SemDespacho, {})

\* the guard of the last administrator off by one
UltimoAdminNenhum(admins) == Len(admins) < 1

\* line 470
UltimoAdmin(admins) == Len(admins) <= 1

\* remover_admin (lines 438-485)
remover_admin(user_id, admin_id, gravou) ==
    /\ evento' = Evento("removeradmin", 0, admin_id)
    /\ Taxa(user_id)
    /\ antes' = <<>>
    /\ dupla' = "nenhuma"
    /\ UNCHANGED <<GRUPO_ORIGEM_ID, GRUPOS_DESTINO, GRUPOS_INFO, filtro_chat_id, now,
                   ultimo_prompt, botoes>>
    /\ IF ~admitido'
       THEN /\ Efeito(MENSAGENS_PARA_REPOSTAR, "LimiteTaxa", SemDespacho, {})
            /\ UNCHANGED <<ADMIN_IDS, config_json>>
       ELSE IF ~is_admin(user_id)
       THEN /\ Efeito(MENSAGENS_PARA_REPOSTAR, "SemPermissao", SemDespacho, {})
            /\ UNCHANGED <<ADMIN_IDS, config_json>>
       ELSE IF ~Contem(ADMIN_IDS, validate_id(admin_id))
       THEN /\ Efeito(MENSAGENS_PARA_REPOSTAR, "NaoAdmin", SemDespacho, {})
            /\ UNCHANGED <<ADMIN_IDS, config_json>>
       ELSE IF UltimoAdmin(ADMIN_IDS)
       THEN /\ Efeito(MENSAGENS_PARA_REPOSTAR, "UltimoAdmin", SemDespacho, {})
            /\ UNCHANGED <<ADMIN_IDS, config_json>>
       ELSE /\ ADMIN_IDS' = Remove(ADMIN_IDS, admin_id)
            /\ salvar_config(GRUPO_ORIGEM_ID, GRUPOS_DESTINO, ADMIN_IDS', GRUPOS_INFO, gravou)
            /\ Efeito(MENSAGENS_PARA_REPOSTAR, "AdminRemovido", SemDespacho, {})

\* a message in a chat other than the one the filter of the MessageHandler was
\* built with (main, lines 725-728): no handler runs
mensagem_filtrada(chat_id) ==
    /\ chat_id # filtro_chat_id
    /\ evento' = Evento("filtrada", 0, 0)
    /\ SemTaxa
    /\ Efeito(MENSAGENS_PARA_REPOSTAR, "Nada", SemDespacho, {})
    /\ antes' = <<>>
    /\ dupla' = "nenhuma"
    /\ UNCHANGED <<registro, filtro_chat_id, now, ultimo_prompt, botoes>>

\* the check of the empty list of destinations left out
SemDestinosNunca(grupos_destino) == FALSE

\* line 523
SemDestinos(grupos_destino) == grupos_destino = <<>>

\* the session stored whether or not send_message returned
AposPromptSempre(mensagens, dm, mensagem_info) == Com(mensagens, dm, mensagem_info)

\* lines 558-566: the store is written after send_message returned, under the
\* id of the prompt; when send_message raised (dm = 0) line 566 is not reached
AposPrompt(mensagens, dm, mensagem_info) ==
    IF dm = 0 THEN mensagens ELSE Com(mensagens, dm, mensagem_info)

\* processar_mensagem (lines 514-585) for a message the filter of main lets
\* through.  dm is the message id of the private prompt, 0 when send_message
\* raised; confirmou tells whether the confirmation in the group was sent.
processar_mensagem(chat_id, user_id, message_id, dm, confirmou) ==
    /\ chat_id = filtro_chat_id
    /\ evento' = Evento("mensagem",
                        IF /\ chat_id = GRUPO_ORIGEM_ID
                           /\ rate_limit_check(rate_counters, user_id, now).permite
                           /\ ~SemDestinos(GRUPOS_DESTINO)
                        THEN dm ELSE 0,
                        0)
    /\ antes' = <<>>
    /\ dupla' = "nenhuma"
    /\ UNCHANGED <<registro, filtro_chat_id, now>>
    /\ IF chat_id # GRUPO_ORIGEM_ID
       THEN /\ SemTaxa
            /\ Efeito(MENSAGENS_PARA_REPOSTAR, "Nada", SemDespacho, {})
            /\ UNCHANGED <<ultimo_prompt, botoes>>
       ELSE /\ Taxa(user_id)
            /\ IF ~admitido'
               THEN /\ Efeito(MENSAGENS_PARA_REPOSTAR, "LimiteTaxa", SemDespacho, {})
                    /\ UNCHANGED <<ultimo_prompt, botoes>>
               ELSE IF SemDestinos(GRUPOS_DESTINO)
               THEN /\ Efeito(MENSAGENS_PARA_REPOSTAR, "SemDestinos", SemDespacho, {})
                    /\ UNCHANGED <<ultimo_prompt, botoes>>
               ELSE
               LET mensagem_info == [message_id |-> message_id,
                                     grupos_selecionados |-> <<>>,
                                     from_user_id |-> user_id]
               IN
               IF dm = 0
               THEN /\ Efeito(AposPrompt(MENSAGENS_PARA_REPOSTAR, dm, mensagem_info),
                              "SemPrivado", SemDespacho, {})
                    /\ UNCHANGED <<ultimo_prompt, botoes>>
               ELSE /\ dm > ultimo_prompt[user_id]
                    /\ ultimo_prompt' = [ultimo_prompt EXCEPT ![user_id] = dm]
                    /\ botoes' = Com(botoes, dm, Range(GRUPOS_DESTINO))
                    /\ Efeito(AposPrompt(MENSAGENS_PARA_REPOSTAR, dm, mensagem_info),
                              IF confirmou THEN "PromptEnviado" ELSE "SemPrivado",
                              SemDespacho, {})

\* the button of a group that only ever selects
AlternarSoAdiciona(grupos_selecionados, grupo_id) ==
    IF Contem(grupos_selecionados, grupo_id)
    THEN grupos_selecionados
    ELSE Append(grupos_selecionados, grupo_id)

\* lines 627-630: a button of one group
Alternar(grupos_selecionados, grupo_id) ==
    IF Contem(grupos_selecionados, grupo_id)
    THEN Remove(grupos_selecionados, grupo_id)
    ELSE Append(grupos_selecionados, grupo_id)

\* select_all that leaves out the group added last
SelecionarQuaseTodos(grupos_destino) ==
    IF grupos_destino = <<>> THEN <<>> ELSE SubSeq(grupos_destino, 1, Len(grupos_destino) - 1)

\* line 617
SelecionarTodos(grupos_destino) == grupos_destino

\* clear_all that empties the handler's local list only
LimparLocal(grupos_selecionados) == grupos_selecionados

\* line 637
Limpar(grupos_selecionados) == <<>>

\* the check of the empty selection left out
SemSelecaoNunca(grupos_selecionados) == FALSE

\* line 641
SemSelecao(grupos_selecionados) == grupos_selecionados = <<>>

\* Repostar with the loop left at the first copy_message that raises
RECURSIVE RepostarAborta(_, _, _, _, _)
RepostarAborta(grupos, original_message_id, resultado, i, d) ==
    IF i > Len(grupos) THEN d
    ELSE LET grupo_id == grupos[i]
             chamada == [chat_id |-> grupo_id,
                         from_chat_id |-> GRUPO_ORIGEM_ID,
                         message_id |-> original_message_id,
                         ok |-> resultado[i]]
         IN IF resultado[i]
            THEN RepostarAborta(grupos, original_message_id, resultado, i + 1,
                     [d EXCEPT !.copias = Append(@, chamada), !.sucessos = @ + 1])
            ELSE [d EXCEPT !.copias = Append(@, chamada),
                           !.falhas = @ + 1,
                           !.detalhes_falhas =
                               Append(@, [nome |-> NomeDe(GRUPOS_INFO, grupo_id),
                                          grupo |-> grupo_id])]

\* Repostar with every failure put in front of detalhes_falhas
RECURSIVE RepostarInvertido(_, _, _, _, _)
RepostarInvertido(grupos, original_message_id, resultado, i, d) ==
    IF i > Len(grupos) THEN d
    ELSE LET grupo_id == grupos[i]
             chamada == [chat_id |-> grupo_id,
                         from_chat_id |-> GRUPO_ORIGEM_ID,
                         message_id |-> original_message_id,
                         ok |-> resultado[i]]
         IN RepostarInvertido(grupos, original_message_id, resultado, i + 1,
                IF resultado[i]
                THEN [d EXCEPT !.copias = Append(@, chamada),
                               !.sucessos = @ + 1]
                ELSE [d EXCEPT !.copias = Append(@, chamada),
                               !.falhas = @ + 1,
                               !.detalhes_falhas =
                                   <<[nome |-> NomeDe(GRUPOS_INFO, grupo_id),
                                      grupo |-> grupo_id]>> \o @])

\* lines 651-665: one pass of the loop body for grupos[i], then the rest of
\* the loop; resultado[i] tells whether copy_message returned or raised
RECURSIVE Repostar(_, _, _, _, _)
Repostar(grupos, original_message_id, resultado, i, d) ==
    IF i > Len(grupos) THEN d
    ELSE LET grupo_id == grupos[i]
             chamada == [chat_id |-> grupo_id,
                         from_chat_id |-> GRUPO_ORIGEM_ID,
                         message_id |-> original_message_id,
                         ok |-> resultado[i]]
         IN Repostar(grupos, original_message_id, resultado, i + 1,
                IF resultado[i]
                THEN [d EXCEPT !.copias = Append(@, chamada),
                               !.sucessos = @ + 1]
                ELSE [d EXCEPT !.copias = Append(@, chamada),
                               !.falhas = @ + 1,
                               !.detalhes_falhas =
                                   Append(@, [nome |-> NomeDe(GRUPOS_INFO, grupo_id),
                                              grupo |-> grupo_id])])

\* lines 682-686: the groups rendered with a check mark
Teclado(grupos_destino, grupos_selecionados) ==
    {g \in Range(grupos_destino) : Contem(grupos_selecionados, g)}

\* line 600
Existe(message_id) == message_id \in DOMAIN MENSAGENS_PARA_REPOSTAR

\* the owner check left out
DonoQualquer(user_id, message_id) == TRUE

\* line 607
Dono(user_id, message_id) ==
    user_id = MENSAGENS_PARA_REPOSTAR[message_id].from_user_id

\* processar_callback (lines 587-701).  data is "select" for the button
\* select_<grupo_id>, else the callback data itself; ack tells whether
\* query.answer() returned.  The outcomes of the copy_message calls and of the
\* edit_text that reports the result are chosen in the send branch.  evento
\* keeps the action when the handler got as far as the action, and antes the
\* selection that the button of a group or send found.
processar_callback(user_id, message_id, data, grupo_id, ack) ==
    /\ SemTaxa
    /\ UNCHANGED <<registro, filtro_chat_id, now, ultimo_prompt>>
    /\ IF ~ack
       THEN /\ Efeito(MENSAGENS_PARA_REPOSTAR, "Erro", SemDespacho, {})
            /\ evento' = Evento("callback", 0, 0)
            /\ UNCHANGED botoes
            /\ antes' = <<>>
            /\ dupla' = "nenhuma"
       ELSE IF ~Existe(message_id)
       THEN /\ Efeito(MENSAGENS_PARA_REPOSTAR, "Expirada", SemDespacho, {})
            /\ evento' = Evento("callback", 0, 0)
            /\ UNCHANGED botoes
            /\ antes' = <<>>
            /\ dupla' = "nenhuma"
       ELSE IF ~Dono(user_id, message_id)
       THEN /\ Efeito(MENSAGENS_PARA_REPOSTAR, "NaoDono", SemDespacho, {})
            /\ evento' = Evento("callback", 0, 0)
            /\ UNCHANGED botoes
            /\ antes' = <<>>
            /\ dupla' = "nenhuma"
       ELSE
       LET mensagem_info == MENSAGENS_PARA_REPOSTAR[message_id]
           grupos_selecionados == mensagem_info.grupos_selecionados
       IN
       /\ evento' = Evento(data, message_id, grupo_id)
       /\ antes' = IF data \in {"select", "send"} THEN grupos_selecionados ELSE <<>>
       /\ botoes' = IF data = "send"
                    THEN botoes
                    ELSE [botoes EXCEPT ![message_id] = @ \cup Range(GRUPOS_DESTINO)]
       /\ dupla' = IF data = "select" /\ evento = Evento("select", message_id, grupo_id)
                   THEN "alternar"
                   ELSE IF data = "clear_all" /\ evento = Evento("select_all", message_id, 0)
                   THEN "todos_limpar"
                   ELSE "nenhuma"
       /\ CASE data = "select_all" ->
              Efeito([MENSAGENS_PARA_REPOSTAR EXCEPT
                         ![message_id].grupos_selecionados = SelecionarTodos(GRUPOS_DESTINO)],
                     "Teclado", SemDespacho,
                     Teclado(GRUPOS_DESTINO, grupos_selecionados))
         [] data = "select" ->
              LET novos == Alternar(grupos_selecionados, validate_id(grupo_id)) IN
              Efeito([MENSAGENS_PARA_REPOSTAR EXCEPT
                         ![message_id].grupos_selecionados = novos],
                     "Teclado", SemDespacho,
                     Teclado(GRUPOS_DESTINO, novos))
         [] data = "clear_all" ->
              Efeito([MENSAGENS_PARA_REPOSTAR EXCEPT
                         ![message_id].grupos_selecionados = Limpar(grupos_selecionados)],
                     "Teclado", SemDespacho,
                     Teclado(GRUPOS_DESTINO, grupos_selecionados))
         [] data = "send" ->
              IF SemSelecao(grupos_selecionados)
              THEN Efeito(MENSAGENS_PARA_REPOSTAR, "NenhumSelecionado", SemDespacho, {})
              ELSE \E resultado \in [1..Len(grupos_selecionados) -> BOOLEAN],
                      editou \in BOOLEAN :
                      LET d == Repostar(grupos_selecionados, mensagem_info.message_id,
                                        resultado, 1, SemDespacho)
                      IN IF editou
                         THEN Efeito(SemChave(MENSAGENS_PARA_REPOSTAR, message_id),
                                     "Resultado", d, {})
                         ELSE Efeito(MENSAGENS_PARA_REPOSTAR, "Erro", d, {})

\* ------------------------------------------------------- specifications
\* carregar_config (lines 49-110, 136-141) on a config.json the bot wrote
Init ==
    /\ GRUPO_ORIGEM_ID \in Origens
    /\ filtro_chat_id = GRUPO_ORIGEM_ID
    /\ GRUPOS_DESTINO \in SeqsSemRep(Dests)
    /\ GRUPOS_INFO = [g \in Range(GRUPOS_DESTINO) |-> "Alpha"]
    /\ ADMIN_IDS = <<1>>
    /\ config_json = Sanitizado(GRUPO_ORIGEM_ID, GRUPOS_DESTINO, ADMIN_IDS, GRUPOS_INFO)
    /\ MENSAGENS_PARA_REPOSTAR = <<>>
    /\ rate_counters = <<>>
    /\ now = 0
    /\ ultimo_prompt = [u \in Actors |-> 0]
    /\ botoes = <<>>
    /\ em_curso = <<>>
    /\ fila = <<>>
    /\ recebidas = 0
    /\ evento = Evento("inicio", 0, 0)
    /\ resposta = "Nada"
    /\ copias = <<>>
    /\ sucessos = 0
    /\ falhas = 0
    /\ detalhes_falhas = <<>>
    /\ marcados = {}
    /\ antes = <<>>
    /\ dupla = "nenhuma"
    /\ admitido = TRUE
    /\ janela = <<>>

\* the dispatcher with concurrent_updates set: it starts the handler of an
\* update whatever is in flight
PodeIniciarSempre == TRUE

\* main, line 712: the Application is built with its defaults, without
\* concurrent_updates, so the dispatcher starts the handler of the next update
\* when no handler is in flight
PodeIniciar == em_curso = <<>>

\* an update that finds the queue empty and no handler in flight, and its
\* handler taken from its start to its end
Inteiro == PodeIniciar /\ fila = <<>> /\ UNCHANGED <<em_curso, fila, recebidas>>

Botoes == {"select", "select_all", "clear_all", "send"}

\* the buttons of a prompt: callback data and, for select_<id>, the group
Pressoes == {<<"select", g>> : g \in Dests} \cup {<<b, 0>> : b \in Botoes \ {"select"}}

\* The updates of Spec: messages in the origin group, presses of the buttons
\* a prompt has shown, or of any button of a prompt of an earlier run (one
\* press whose query.answer() raises stands for all of them: the handler
\* stops before it reads the update), and the two commands that change the
\* list of destinations, with config.json writable and every group named
\* alike.
Next ==
    \/ \E c \in Chats, u \in Actors, m \in MsgIds, dm \in PromptIds \cup {0}, ok \in BOOLEAN :
          Checks(u) < MaxChecks /\ processar_mensagem(c, u, m, dm, ok) /\ Inteiro
    \/ \E u \in Actors, h \in PromptIds, p \in Pressoes :
          /\ (p[1] = "select" /\ h \in DOMAIN botoes) => p[2] \in botoes[h]
          /\ processar_callback(u, h, p[1], p[2], TRUE) /\ Inteiro
    \/ \E u \in Actors, h \in PromptIds :
          processar_callback(u, h, "send", 0, FALSE) /\ Inteiro
    \/ \E u \in Actors, g \in Dests :
          Checks(u) < MaxChecks /\ adicionar_grupo(u, g, "Alpha", TRUE) /\ Inteiro
    \/ \E u \in Actors, g \in Dests :
          Checks(u) < MaxChecks /\ remover_grupo(u, g, TRUE) /\ Inteiro

Spec == Init /\ [][Next]_vars

\* The updates of SpecRate: /ajuda from every user, and time passing.
NextRate ==
    \/ \E u \in Actors : Checks(u) < RATE_LIMIT + MaxOver /\ ajuda(u) /\ Inteiro
    \/ \E dt \in Saltos : Tick(dt) /\ Inteiro

SpecRate == Init /\ [][NextRate]_vars

\* carregar_config as in Init, on a config.json that lists up to NDestsAdmin
\* destinations by ascending id
InitAdmin ==
    /\ GRUPO_ORIGEM_ID \in Origens
    /\ filtro_chat_id = GRUPO_ORIGEM_ID
    /\ GRUPOS_DESTINO \in {s \in SeqsSemRep(DestsAdmin) :
                              \A i, j \in DOMAIN s : i < j => s[i] < s[j]}
    /\ GRUPOS_INFO = [g \in Range(GRUPOS_DESTINO) |-> "Alpha"]
    /\ ADMIN_IDS = <<1>>
    /\ config_json = Sanitizado(GRUPO_ORIGEM_ID, GRUPOS_DESTINO, ADMIN_IDS, GRUPOS_INFO)
    /\ MENSAGENS_PARA_REPOSTAR = <<>>
    /\ rate_counters = <<>>
    /\ now = 0
    /\ ultimo_prompt = [u \in Actors |-> 0]
    /\ botoes = <<>>
    /\ em_curso = <<>>
    /\ fila = <<>>
    /\ recebidas = 0
    /\ evento = Evento("inicio", 0, 0)
    /\ resposta = "Nada"
    /\ copias = <<>>
    /\ sucessos = 0
    /\ falhas = 0
    /\ detalhes_falhas = <<>>
    /\ marcados = {}
    /\ antes = <<>>
    /\ dupla = "nenhuma"
    /\ admitido = TRUE
    /\ janela = <<>>

\* The updates of SpecAdmin: the five commands that change the configuration,
\* from every user, with config.json writable or not.
NextAdmin ==
    \/ \E u \in Actors, g \in DestsAdmin, n \in Nomes, gravou \in BOOLEAN :
          Checks(1) + Checks(2) < MaxAdminChecks /\ adicionar_grupo(u, g, n, gravou) /\ Inteiro
    \/ \E u \in Actors, g \in DestsAdmin, gravou \in BOOLEAN :
          Checks(1) + Checks(2) < MaxAdminChecks /\ remover_grupo(u, g, gravou) /\ Inteiro
    \/ \E u \in Actors, c \in Chats, gravou \in BOOLEAN :
          Checks(1) + Checks(2) < MaxAdminChecks /\ definir_grupo_principal(u, c, gravou) /\ Inteiro
    \/ \E u \in Actors, a \in Actors, gravou \in BOOLEAN :
          Checks(1) + Checks(2) < MaxAdminChecks /\ adicionar_admin(u, a, gravou) /\ Inteiro
    \/ \E u \in Actors, a \in Actors, gravou \in BOOLEAN :
          Checks(1) + Checks(2) < MaxAdminChecks /\ remover_admin(u, a, gravou) /\ Inteiro

SpecAdmin == InitAdmin /\ [][NextAdmin]_vars

\* carregar_config (lines 76-79) on a config.json that lists n destinations,
\* n <= MAX_GROUPS, which is every length it accepts
InitCap ==
    /\ GRUPO_ORIGEM_ID \in Origens
    /\ filtro_chat_id = GRUPO_ORIGEM_ID
    /\ GRUPOS_DESTINO \in {[i \in 1..n |-> 1000 + i] : n \in 0..MAX_GROUPS}
    /\ GRUPOS_INFO = [g \in Range(GRUPOS_DESTINO) |-> "Alpha"]
    /\ ADMIN_IDS = <<1>>
    /\ config_json = Sanitizado(GRUPO_ORIGEM_ID, GRUPOS_DESTINO, ADMIN_IDS, GRUPOS_INFO)
    /\ MENSAGENS_PARA_REPOSTAR = <<>>
    /\ rate_counters = <<>>
    /\ now = 0
    /\ ultimo_prompt = [u \in Actors |-> 0]
    /\ botoes = <<>>
    /\ em_curso = <<>>
    /\ fila = <<>>
    /\ recebidas = 0
    /\ evento = Evento("inicio", 0, 0)
    /\ resposta = "Nada"
    /\ copias = <<>>
    /\ sucessos = 0
    /\ falhas = 0
    /\ detalhes_falhas = <<>>
    /\ marcados = {}
    /\ antes = <<>>
    /\ dupla = "nenhuma"
    /\ admitido = TRUE
    /\ janela = <<>>

\* The updates of SpecCap: /adicionargrupo with the first id or with the id
\* after the last one of the list.
NextCap ==
    \E u \in Actors, g \in {1001, 1001 + Len(GRUPOS_DESTINO)} :
        Checks(1) + Checks(2) < MaxAdminChecks /\ adicionar_grupo(u, g, "Alpha", TRUE) /\ Inteiro

SpecCap == InitCap /\ [][NextCap]_vars

\* The updates of SpecOrigem: those of Spec with messages in every chat,
\* /definirgrupoprincipal in place of the commands that change the list of
\* destinations, and every press acknowledged.
NextOrigem ==
    \/ \E c \in Chats, u \in Actors, m \in MsgIds, dm \in PromptIds \cup {0}, ok \in BOOLEAN :
          Checks(u) < MaxChecks /\ processar_mensagem(c, u, m, dm, ok) /\ Inteiro
    \/ \E c \in Chats : mensagem_filtrada(c) /\ Inteiro
    \/ \E u \in Actors, h \in PromptIds, p \in Pressoes :
          /\ (p[1] = "select" /\ h \in DOMAIN botoes) => p[2] \in botoes[h]
          /\ processar_callback(u, h, p[1], p[2], TRUE) /\ Inteiro
    \/ \E u \in Actors, c \in Chats :
          Checks(u) < MaxChecks /\ definir_grupo_principal(u, c, TRUE) /\ Inteiro

SpecOrigem == Init /\ [][NextOrigem]_vars

\* The updates of SpecMensagem: messages in the chats, from users who get as
\* far as the rate limit and beyond it.
NextMensagem ==
    \E c \in Chats, u \in Actors, m \in MsgIds, dm \in PromptIds \cup {0}, ok \in BOOLEAN :
        Checks(u) < RATE_LIMIT + MaxOver /\ processar_mensagem(c, u, m, dm, ok) /\ Inteiro

SpecMensagem == Init /\ [][NextMensagem]_vars

\* ------------------------------------------------------------- claims
Selecao(h) == MENSAGENS_PARA_REPOSTAR[h].grupos_selecionados

\* the owner of session h presses a button of its prompt
DoDono(u, h) == Existe(h) /\ MENSAGENS_PARA_REPOSTAR[h].from_user_id = u

\* the owner of session h presses send with a group selected
EnvioAceito(u, h) == DoDono(u, h) /\ Selecao(h) # <<>>

Chamadas(g) == {i \in DOMAIN copias : copias[i].chat_id = g}

\* C1: when the owner sends a session with a non-empty selection, copy_message
\* is called exactly once for every selected group and for no other, whichever
\* of the calls fail.
C1_UmaCopiaPorDestino ==
    [][\A u \in Actors, h \in PromptIds :
          (EnvioAceito(u, h) /\ processar_callback(u, h, "send", 0, TRUE))
          => /\ \A g \in Range(Selecao(h)) : Cardinality(Chamadas(g)') = 1
             /\ \A i \in DOMAIN copias' : copias'[i].chat_id \in Range(Selecao(h))]_vars

\* a dispatch in which a copy failed and a later group was still attempted
C1_Witness == Len(copias) >= 2 /\ ~copias[1].ok

\* C2: after a dispatch, sucessos is the number of copies that succeeded,
\* detalhes_falhas names exactly the groups whose copy failed, in the order
\* they were attempted, and sucessos plus the number of failures is the number
\* of groups that were selected.
C2_ResultadoExato ==
    copias # <<>> =>
        LET falhou == SelectSeq(copias, LAMBDA c : ~c.ok) IN
        /\ evento.tipo = "send"
        /\ sucessos = Cardinality({i \in DOMAIN copias : copias[i].ok})
        /\ Len(detalhes_falhas) = Len(falhou)
        /\ \A i \in DOMAIN falhou : detalhes_falhas[i].grupo = falhou[i].chat_id
        /\ falhas = Len(detalhes_falhas)
        /\ sucessos + Len(detalhes_falhas) = Len(antes)

\* a dispatch whose first copy failed and whose second succeeded
C2_Witness ==
    /\ Len(copias) = 2
    /\ ~copias[1].ok /\ copias[2].ok
    /\ sucessos = 1
    /\ Len(detalhes_falhas) = 1

\* C3: once the owner's send on a session with a non-empty selection has run
\* its dispatch, the session is out of the store, whatever the copies and the
\* report of the result did; and every button pressed on a handle that is not
\* in the store is answered "expired" and changes nothing.
C3_SessaoEncerrada ==
    [][\A u \in Actors, h \in PromptIds :
          /\ (EnvioAceito(u, h) /\ processar_callback(u, h, "send", 0, TRUE))
             => h \notin DOMAIN MENSAGENS_PARA_REPOSTAR'
          /\ \A p \in Pressoes :
                (~Existe(h) /\ processar_callback(u, h, p[1], p[2], TRUE))
                => /\ resposta' = "Expirada"
                   /\ copias' = <<>>
                   /\ UNCHANGED <<MENSAGENS_PARA_REPOSTAR, registro>>]_vars

\* C4: a button pressed on a session by somebody who is not its owner is
\* answered "not yours", leaves the store as it is and copies nothing.
C4_SoODono ==
    [][\A u \in Actors, h \in PromptIds, p \in Pressoes :
          (/\ Existe(h)
           /\ MENSAGENS_PARA_REPOSTAR[h].from_user_id # u
           /\ processar_callback(u, h, p[1], p[2], TRUE))
          => /\ resposta' = "NaoDono"
             /\ copias' = <<>>
             /\ UNCHANGED <<MENSAGENS_PARA_REPOSTAR, registro>>]_vars

\* somebody else's button was refused while the session was in the store
C4_Witness == resposta = "NaoDono" /\ MENSAGENS_PARA_REPOSTAR # <<>>

\* C5: send by the owner on a session with nothing selected is answered
\* "nothing selected", copies nothing and leaves the session in the store
\* with its empty selection.
C5_EnvioVazio ==
    [][\A u \in Actors, h \in PromptIds :
          (DoDono(u, h) /\ Selecao(h) = <<>> /\ processar_callback(u, h, "send", 0, TRUE))
          => /\ resposta' = "NenhumSelecionado"
             /\ copias' = <<>>
             /\ UNCHANGED MENSAGENS_PARA_REPOSTAR]_vars

\* a send was refused for its empty selection
C5_Witness ==
    /\ resposta = "NenhumSelecionado"
    /\ \E h \in DOMAIN MENSAGENS_PARA_REPOSTAR : Selecao(h) = <<>>

\* C6: of the rate checks a user makes while one window is current, the
\* first RATE_LIMIT are allowed and every further one is denied: the answer
\* to the n-th check of a window is "allowed" exactly when n <= RATE_LIMIT.
C6_Capacidade ==
    \A u \in DOMAIN janela : janela[u].permitido <=> janela[u].n <= RATE_LIMIT

\* a user got the answer to check RATE_LIMIT + 1 of a window
C6_Witness ==
    \E u \in DOMAIN janela : janela[u].n = RATE_LIMIT + 1 /\ ~janela[u].permitido

\* C7: a rate check made more than JANELA after the user's window started is
\* allowed and leaves count = 1 and timestamp = now, whatever the count was,
\* and a denied check leaves the timestamp where it was.
C7_Recuperacao ==
    [][\A u \in Actors :
          (u \in DOMAIN rate_counters /\ ajuda(u))
          => /\ now - rate_counters[u].timestamp > JANELA
                => /\ admitido'
                   /\ rate_counters'[u] = [count |-> 1, timestamp |-> now]
             /\ ~admitido' => rate_counters'[u].timestamp = rate_counters[u].timestamp]_vars

\* a user who was denied in one window has made the first check of the next
C7_Witness ==
    \E u \in DOMAIN janela :
        /\ janela[u].negado_antes
        /\ janela[u].n = 1
        /\ janela[u].permitido
        /\ rate_counters[u] = [count |-> 1, timestamp |-> now]

\* C8: the button of group g, pressed by the owner, selects g when it is not
\* selected and deselects it when it is, so that pressing it twice in a row
\* leaves the groups selected that were selected before.
C8_Alternar ==
    [][\A u \in Actors, h \in PromptIds, g \in Dests :
          (DoDono(u, h) /\ processar_callback(u, h, "select", g, TRUE))
          => /\ h \in DOMAIN MENSAGENS_PARA_REPOSTAR'
             /\ g \notin Range(Selecao(h)) => Range(Selecao(h)') = Range(Selecao(h)) \cup {g}
             /\ g \in Range(Selecao(h)) => Range(Selecao(h)') = Range(Selecao(h)) \ {g}
             /\ dupla' = "alternar" => Range(Selecao(h)') = Range(antes)]_vars

\* the same button was pressed twice in a row on a session that had nothing
\* selected, and nothing is selected
C8_Witness ==
    /\ dupla = "alternar"
    /\ evento.handle \in DOMAIN MENSAGENS_PARA_REPOSTAR
    /\ Selecao(evento.handle) = <<>>
    /\ antes = <<evento.grupo>>

\* C9: select_all by the owner selects exactly the groups that are
\* destinations at that moment, and a group added or removed afterwards
\* changes the selection of no session in the store: after a change that
\* follows a select_all, the session still holds the destinations as they
\* were before the change.
C9_SelecionarTodos ==
    [][/\ \A u \in Actors, h \in PromptIds :
             (DoDono(u, h) /\ processar_callback(u, h, "select_all", 0, TRUE))
             => /\ h \in DOMAIN MENSAGENS_PARA_REPOSTAR'
                /\ Range(Selecao(h)') = Range(GRUPOS_DESTINO)
                /\ Len(Selecao(h)') = Len(GRUPOS_DESTINO)
       /\ \A u \in Actors, g \in Dests, n \in Nomes, gravou \in BOOLEAN :
             (adicionar_grupo(u, g, n, gravou) \/ remover_grupo(u, g, gravou))
             => /\ UNCHANGED MENSAGENS_PARA_REPOSTAR
                /\ dupla' = "todos_mudanca"
                   => /\ evento.handle \in DOMAIN MENSAGENS_PARA_REPOSTAR'
                      /\ MENSAGENS_PARA_REPOSTAR'[evento.handle].grupos_selecionados
                            = GRUPOS_DESTINO
                      /\ GRUPOS_DESTINO' # GRUPOS_DESTINO]_vars

\* the destinations were changed right after a select_all, and the session
\* holds the destinations of before the change
C9_Witness ==
    /\ dupla = "todos_mudanca"
    /\ evento.tipo = "removergrupo"
    /\ \E h \in DOMAIN MENSAGENS_PARA_REPOSTAR :
          /\ Len(Selecao(h)) = NDests
          /\ Range(Selecao(h)) # Range(GRUPOS_DESTINO)

\* C10: select_all followed at once by clear_all leaves the session in the
\* store with nothing selected.
C10_TodosLimpar ==
    dupla = "todos_limpar" =>
        /\ evento.handle \in DOMAIN MENSAGENS_PARA_REPOSTAR
        /\ Selecao(evento.handle) = <<>>

\* clear_all came right after a select_all that had selected every possible
\* destination
C10_Witness ==
    /\ dupla = "todos_limpar"
    /\ Len(GRUPOS_DESTINO) = NDests
    /\ marcados = Range(GRUPOS_DESTINO)
    /\ evento.handle \in DOMAIN MENSAGENS_PARA_REPOSTAR
    /\ Selecao(evento.handle) = <<>>

\* C11: a message handled by processar_mensagem adds a session only when
\* there is at least one destination, and the session it adds has nothing
\* selected and the author of the message as owner: with no destination the
\* store stays as it was.
C11_SessaoCriada ==
    [][\A c \in Chats, u \in Actors, m \in MsgIds, dm \in PromptIds \cup {0}, ok \in BOOLEAN :
          processar_mensagem(c, u, m, dm, ok)
          => /\ GRUPOS_DESTINO = <<>> => UNCHANGED MENSAGENS_PARA_REPOSTAR
             /\ MENSAGENS_PARA_REPOSTAR' # MENSAGENS_PARA_REPOSTAR
                => /\ GRUPOS_DESTINO # <<>>
                   /\ c = GRUPO_ORIGEM_ID
                   /\ DOMAIN MENSAGENS_PARA_REPOSTAR' = DOMAIN MENSAGENS_PARA_REPOSTAR \cup {dm}
                   /\ MENSAGENS_PARA_REPOSTAR'[dm].grupos_selecionados = <<>>
                   /\ MENSAGENS_PARA_REPOSTAR'[dm].from_user_id = u
                   /\ MENSAGENS_PARA_REPOSTAR'[dm].message_id = m]_vars

\* a message arrived in the origin group while there was no destination, and
\* the store is empty
C11_Witness ==
    /\ evento.tipo = "mensagem"
    /\ resposta = "SemDestinos"
    /\ GRUPOS_DESTINO = <<>>
    /\ MENSAGENS_PARA_REPOSTAR = <<>>

\* C12: the list of destinations never holds more than MAX_GROUPS groups,
\* whatever commands the administrators give.
C12_Capacidade == Len(GRUPOS_DESTINO) <= MAX_GROUPS

SemRep(s) == \A i, j \in DOMAIN s : i # j => s[i] # s[j]

\* C13: /adicionargrupo with an id that is already a destination leaves the
\* list of destinations and the names as they were and tells the
\* administrator that the group is in the list; and no command puts an id
\* twice into a list that held none twice.
C13_Duplicado ==
    [][/\ \A u \in Actors, g \in DestsAdmin, n \in Nomes, gravou \in BOOLEAN :
             (g \in Range(GRUPOS_DESTINO) /\ adicionar_grupo(u, g, n, gravou))
             => /\ UNCHANGED <<GRUPOS_DESTINO, GRUPOS_INFO>>
                /\ (admitido' /\ u \in Range(ADMIN_IDS)) => resposta' = "JaNaLista"
       /\ SemRep(GRUPOS_DESTINO) => SemRep(GRUPOS_DESTINO')]_vars

\* an administrator added a destination a second time, the last of a list of
\* two or more, under another name
C13_Witness ==
    /\ resposta = "JaNaLista"
    /\ Len(GRUPOS_DESTINO) >= 2
    /\ GRUPOS_DESTINO[Len(GRUPOS_DESTINO)] = evento.grupo
    /\ \E g \in DOMAIN GRUPOS_INFO : GRUPOS_INFO[g] = "Beta"

\* C14: /removeradmin of the only administrator, when the rate limiter lets
\* the command through, is refused and leaves
\* ADMIN_IDS as it was; /removeradmin of one of two administrators leaves
\* exactly the other; and ADMIN_IDS, which holds an administrator at the
\* start, is never left empty.
C14_UltimoAdmin ==
    [][/\ \A u \in Actors, a \in Actors, gravou \in BOOLEAN :
             (/\ u \in Range(ADMIN_IDS)
              /\ a \in Range(ADMIN_IDS)
              /\ remover_admin(u, a, gravou)
              /\ admitido')
             => /\ Len(ADMIN_IDS) = 1
                   => resposta' = "UltimoAdmin" /\ UNCHANGED ADMIN_IDS
                /\ Len(ADMIN_IDS) = 2
                   => /\ resposta' = "AdminRemovido"
                      /\ Len(ADMIN_IDS') = 1
                      /\ Range(ADMIN_IDS') = Range(ADMIN_IDS) \ {a}
       /\ ADMIN_IDS # <<>> => ADMIN_IDS' # <<>>]_vars

\* the only administrator, who was added by another one since removed, was
\* refused the removal of themselves
C14_Witness ==
    /\ resposta = "UltimoAdmin"
    /\ ADMIN_IDS = <<2>>

\* C15: after every command config.json holds the origin, the destinations,
\* their names and the administrators that the process holds in memory: a
\* command whose write fails leaves the memory as the file has it.
C15_Persistido ==
    config_json = Sanitizado(GRUPO_ORIGEM_ID, GRUPOS_DESTINO, ADMIN_IDS, GRUPOS_INFO)

\* C16: /removergrupo by an administrator, when the rate limiter lets it
\* through, is refused for an id that is not a destination and then changes
\* nothing; for a destination it takes that id out of the list and its name
\* out of the names, and leaves the other destinations in the order they
\* had, with their names.
C16_Remover ==
    [][\A u \in Actors, g \in DestsAdmin, gravou \in BOOLEAN :
          (u \in Range(ADMIN_IDS) /\ remover_grupo(u, g, gravou) /\ admitido')
          => /\ g \notin Range(GRUPOS_DESTINO)
                => resposta' = "ForaDaLista" /\ UNCHANGED registro
             /\ g \in Range(GRUPOS_DESTINO)
                => /\ resposta' = "Removido"
                   /\ GRUPOS_DESTINO' = SelectSeq(GRUPOS_DESTINO, LAMBDA x : x # g)
                   /\ DOMAIN GRUPOS_INFO' = DOMAIN GRUPOS_INFO \ {g}
                   /\ \A x \in DOMAIN GRUPOS_INFO' : GRUPOS_INFO'[x] = GRUPOS_INFO[x]
                   /\ UNCHANGED <<GRUPO_ORIGEM_ID, ADMIN_IDS>>]_vars

\* the first of three destinations was removed and the other two are left in
\* their order
C16_Witness ==
    /\ resposta = "Removido"
    /\ evento.grupo = 100
    /\ GRUPOS_DESTINO = <<200, 300>>
    /\ DOMAIN GRUPOS_INFO = {200, 300}

\* one of the five commands that change the configuration, sent by u
ComandoDe(u) ==
    \/ \E g \in DestsAdmin, n \in Nomes, gravou \in BOOLEAN : adicionar_grupo(u, g, n, gravou)
    \/ \E g \in DestsAdmin, gravou \in BOOLEAN : remover_grupo(u, g, gravou)
    \/ \E c \in Chats, gravou \in BOOLEAN : definir_grupo_principal(u, c, gravou)
    \/ \E a \in Actors, gravou \in BOOLEAN : adicionar_admin(u, a, gravou)
    \/ \E a \in Actors, gravou \in BOOLEAN : remover_admin(u, a, gravou)

\* C17: a command that changes the configuration, sent by a user who is not
\* in ADMIN_IDS, leaves the destinations, their names, the origin, the
\* administrators and config.json as they were.
C17_SoAdmin ==
    [][\A u \in Actors :
          (u \notin Range(ADMIN_IDS) /\ ComandoDe(u))
          => /\ UNCHANGED <<GRUPOS_DESTINO, GRUPOS_INFO, GRUPO_ORIGEM_ID, ADMIN_IDS, config_json>>
             /\ resposta' \in {"SemPermissao", "LimiteTaxa"}]_vars

\* user 1, an administrator at the start and removed since, was refused the
\* command that would make them administrator again
C17_Witness ==
    /\ resposta = "SemPermissao"
    /\ evento = Evento("adicionaradmin", 0, 1)
    /\ ADMIN_IDS = <<2>>

\* C18: the copies of a dispatch are attempted in the order in which the
\* groups stand in the list of destinations, whatever the order in which the
\* owner selected them.
C18_OrdemDoRegistro ==
    \A i, j \in DOMAIN copias :
        i < j =>
            \A p, q \in DOMAIN GRUPOS_DESTINO :
                (GRUPOS_DESTINO[p] = copias[i].chat_id /\ GRUPOS_DESTINO[q] = copias[j].chat_id)
                => p < q

\* C19: the selection of every session in the store holds destinations only,
\* and none of them twice.
C19_SelecaoNoRegistro ==
    \A h \in DOMAIN MENSAGENS_PARA_REPOSTAR :
        /\ Range(Selecao(h)) \subseteq Range(GRUPOS_DESTINO)
        /\ SemRep(Selecao(h))

\* C20: a session is dispatched at most once: when a send has run the
\* dispatch loop of a session, the next send on that session copies the
\* message to no group that has received it.
C20_UmDespacho ==
    [][\A u \in Actors, h \in PromptIds :
          (evento = Evento("send", h, 0) /\ processar_callback(u, h, "send", 0, TRUE))
          => \A i \in DOMAIN copias, j \in DOMAIN copias' :
                ~(copias[i].ok /\ copias'[j].ok /\ copias[i].chat_id = copias'[j].chat_id)]_vars

\* C22: every copy of a dispatch is taken from the chat in which the message
\* of the session was posted, which is the chat the filter of the
\* MessageHandler lets through, also after /definirgrupoprincipal.
C22_OrigemFixa ==
    \A i \in DOMAIN copias : copias[i].from_chat_id = filtro_chat_id

\* C23: a message that the rate limiter admits, arriving while there is a
\* destination and the private prompt can be sent, creates a session when it
\* arrives in the chat that is the origin at that moment, also after
\* /definirgrupoprincipal, and creates none when it arrives in another chat.
C23_OrigemVale ==
    [][\A c \in Chats, u \in Actors, m \in MsgIds, dm \in PromptIds, ok \in BOOLEAN :
          (/\ processar_mensagem(c, u, m, dm, ok) \/ mensagem_filtrada(c)
           /\ dm > ultimo_prompt[u]
           /\ GRUPOS_DESTINO # <<>>
           /\ rate_limit_check(rate_counters, u, now).permite)
          => /\ c = GRUPO_ORIGEM_ID
                => /\ dm \in DOMAIN MENSAGENS_PARA_REPOSTAR'
                   /\ MENSAGENS_PARA_REPOSTAR'[dm].from_user_id = u
                   /\ ultimo_prompt'[u] = dm
             /\ c # GRUPO_ORIGEM_ID => UNCHANGED MENSAGENS_PARA_REPOSTAR]_vars

\* C24: a message adds a session only when the rate limiter admitted it and
\* the private prompt was sent; when the prompt cannot be sent the store stays
\* as it was and the handler answers in the group with the notice that asks
\* the author to open a private conversation.
C24_SoComPrompt ==
    [][\A c \in Chats, u \in Actors, m \in MsgIds, dm \in PromptIds \cup {0}, ok \in BOOLEAN :
          processar_mensagem(c, u, m, dm, ok)
          => /\ MENSAGENS_PARA_REPOSTAR' # MENSAGENS_PARA_REPOSTAR
                => /\ rate_limit_check(rate_counters, u, now).permite
                   /\ dm # 0
                   /\ DOMAIN MENSAGENS_PARA_REPOSTAR' = DOMAIN MENSAGENS_PARA_REPOSTAR \cup {dm}
             /\ ~rate_limit_check(rate_counters, u, now).permite
                => UNCHANGED MENSAGENS_PARA_REPOSTAR
             /\ (/\ dm = 0
                 /\ c = GRUPO_ORIGEM_ID
                 /\ GRUPOS_DESTINO # <<>>
                 /\ rate_limit_check(rate_counters, u, now).permite)
                => /\ UNCHANGED MENSAGENS_PARA_REPOSTAR
                   /\ resposta' = "SemPrivado"]_vars

\* the prompt of an admitted message could not be sent, the notice was given
\* and the store is empty
C24_Witness ==
    /\ evento.tipo = "mensagem"
    /\ resposta = "SemPrivado"
    /\ admitido
    /\ GRUPOS_DESTINO # <<>>
    /\ MENSAGENS_PARA_REPOSTAR = <<>>

\* C25: after a button of a group, select_all or clear_all accepted from the
\* owner, the buttons rendered with a check mark are those of the groups that
\* are in the stored selection of the session.
C25_MarcasDaSelecao ==
    (resposta = "Teclado" /\ evento.handle \in DOMAIN MENSAGENS_PARA_REPOSTAR)
    => marcados = Range(Selecao(evento.handle)) \cap Range(GRUPOS_DESTINO)

\* C27: a message that creates a session leaves every session that was in the
\* store in it, with its owner, its message and its selection.
C27_SemSobrescrever ==
    [][\A c \in Chats, u \in Actors, m \in MsgIds, dm \in PromptIds \cup {0}, ok \in BOOLEAN :
          processar_mensagem(c, u, m, dm, ok)
          => \A h \in DOMAIN MENSAGENS_PARA_REPOSTAR :
                /\ h \in DOMAIN MENSAGENS_PARA_REPOSTAR'
                /\ MENSAGENS_PARA_REPOSTAR'[h] = MENSAGENS_PARA_REPOSTAR[h]]_vars

\* ------------------------------------------- the dispatch loop in steps
\* An update as the update queue holds it: a message in the origin group or a
\* press of a button of the prompt handle; conc tells whether it arrived while
\* another update was waiting or in the hands of its handler.
Atualizacao(tipo, user, handle, data, grupo) ==
    [tipo |-> tipo, user |-> user, handle |-> handle, data |-> data, grupo |-> grupo,
     conc |-> FALSE]

\* the update is put into the update queue
Chegar(upd) ==
    /\ fila' = Append(fila, [upd EXCEPT !.conc = fila # <<>> \/ em_curso # <<>>])
    /\ recebidas' = recebidas + 1
    /\ UNCHANGED <<registro, filtro_chat_id, MENSAGENS_PARA_REPOSTAR, rate_counters, now,
                   ultimo_prompt, botoes, em_curso, evento, resposta, despacho, marcados,
                   antes, dupla, admitido, janela>>

\* the dispatcher takes the update at the head of the queue
Proxima(tipo) ==
    /\ PodeIniciar
    /\ fila # <<>>
    /\ Head(fila).tipo = tipo
    /\ fila' = Tail(fila)
    /\ UNCHANGED recebidas

\* line 611 binds the local grupos_selecionados to the list the session holds;
\* lines 617 and 637 put another list into the session, line 566 another
\* session under the handle and line 678 takes the session out: a handler in
\* flight that bound the list before keeps the list it bound
Soltar(em, handle) ==
    [k \in DOMAIN em |->
        IF em[k].handle = handle /\ em[k].alias
        THEN [em[k] EXCEPT !.alias = FALSE, !.lista = Selecao(handle)]
        ELSE em[k]]

\* the list that the loop of line 651 iterates
Lista(t) == IF t.alias THEN Selecao(t.handle) ELSE t.lista

\* processar_mensagem (lines 514-585) for the update at the head of the queue
iniciar_mensagem(dm, confirmou) ==
    /\ Proxima("mensagem")
    /\ processar_mensagem(GRUPO_ORIGEM_ID, Head(fila).user, Head(fila).handle, dm, confirmou)
    /\ em_curso' = IF MENSAGENS_PARA_REPOSTAR' # MENSAGENS_PARA_REPOSTAR
                   THEN Soltar(em_curso, dm)
                   ELSE em_curso

\* processar_callback (lines 587-701) for the press at the head of the queue,
\* but for a send that gets to the loop
iniciar_callback ==
    LET upd == Head(fila) IN
    /\ Proxima("callback")
    /\ ~(upd.data = "send" /\ EnvioAceito(upd.user, upd.handle))
    /\ processar_callback(upd.user, upd.handle, upd.data, upd.grupo, TRUE)
    /\ em_curso' = IF upd.data \in {"select_all", "clear_all"} /\ DoDono(upd.user, upd.handle)
                   THEN Soltar(em_curso, upd.handle)
                   ELSE em_curso

\* processar_callback, lines 587-657, for a send that gets to the loop: up to
\* the first copy_message, in which the handler is suspended
send_inicio ==
    LET upd == Head(fila) IN
    /\ Proxima("callback")
    /\ upd.data = "send"
    /\ EnvioAceito(upd.user, upd.handle)
    /\ em_curso' = Append(em_curso,
                          [user |-> upd.user,
                           handle |-> upd.handle,
                           message_id |-> MENSAGENS_PARA_REPOSTAR[upd.handle].message_id,
                           aceito |-> Selecao(upd.handle),
                           alias |-> TRUE,
                           lista |-> <<>>,
                           i |-> 1,
                           pend |-> Selecao(upd.handle)[1],
                           d |-> SemDespacho])
    /\ UNCHANGED <<registro, filtro_chat_id, MENSAGENS_PARA_REPOSTAR, rate_counters, now,
                   ultimo_prompt, botoes, evento, resposta, despacho, marcados,
                   antes, dupla, admitido, janela>>

\* lines 651-665: the copy_message in which the handler k is suspended returns
\* (ok) or raises, and the loop takes the next item of its list, if there is
\* one, and is suspended in the copy_message to it
send_copia(k, ok) ==
    LET t == em_curso[k]
        l == Lista(t)
    IN
    /\ t.pend # 0
    /\ em_curso' = [em_curso EXCEPT ![k] =
                       [t EXCEPT !.d = Repostar(<<t.pend>>, t.message_id, <<ok>>, 1, t.d),
                                 !.i = t.i + 1,
                                 !.pend = IF t.i + 1 <= Len(l) THEN l[t.i + 1] ELSE 0]]
    /\ UNCHANGED <<registro, filtro_chat_id, MENSAGENS_PARA_REPOSTAR, rate_counters, now,
                   ultimo_prompt, botoes, fila, recebidas, evento, resposta, despacho,
                   marcados, antes, dupla, admitido, janela>>

\* lines 667-679 and 698-701: the loop of the handler k is over, the report
\* is sent (editou) or raises, and the session is taken out after a report
\* that was sent
send_fim(k, editou) ==
    LET t == em_curso[k]
        resto == IF editou THEN Soltar(em_curso, t.handle) ELSE em_curso
    IN
    /\ t.pend = 0
    /\ SemTaxa
    /\ UNCHANGED <<registro, filtro_chat_id, now, ultimo_prompt, botoes, fila, recebidas>>
    /\ evento' = Evento("send", t.handle, 0)
    /\ antes' = t.aceito
    /\ dupla' = "nenhuma"
    /\ IF editou
       THEN Efeito(SemChave(MENSAGENS_PARA_REPOSTAR, t.handle), "Resultado", t.d, {})
       ELSE Efeito(MENSAGENS_PARA_REPOSTAR, "Erro", t.d, {})
    /\ em_curso' = [j \in 1..(Len(resto) - 1) |-> IF j < k THEN resto[j] ELSE resto[j + 1]]

\* messages of the queue that will pass the rate check of user
NaFila(user) == Cardinality({j \in DOMAIN fila : fila[j].tipo = "mensagem" /\ fila[j].user = user})

\* The updates of SpecPasso: messages in the origin group and presses of the
\* buttons a prompt has shown, put into the update queue as they come and
\* taken from it one at a time; the handler of a send that gets to the loop
\* is followed from one copy_message to the next.
NextPasso ==
    \/ \E u \in Actors, m \in MsgIds :
          /\ recebidas < MaxRecebidas
          /\ Checks(u) + NaFila(u) < MaxChecks
          /\ Chegar(Atualizacao("mensagem", u, m, "", 0))
    \/ \E u \in Actors, h \in DOMAIN botoes, p \in Pressoes :
          /\ recebidas < MaxRecebidas
          /\ p[1] = "select" => p[2] \in botoes[h]
          /\ Chegar(Atualizacao("callback", u, h, p[1], p[2]))
    \/ \E dm \in PromptIds \cup {0} : iniciar_mensagem(dm, TRUE)
    \/ iniciar_callback
    \/ send_inicio
    \/ \E k \in DOMAIN em_curso, ok \in BOOLEAN : send_copia(k, ok)
    \/ \E k \in DOMAIN em_curso, editou \in BOOLEAN : send_fim(k, editou)

SpecPasso == Init /\ [][NextPasso]_vars

\* the destinations that the dispatch t has called copy_message for, the call
\* it is suspended in included
Tentadas(t) ==
    [j \in DOMAIN t.d.copias |-> t.d.copias[j].chat_id]
        \o (IF t.pend # 0 THEN <<t.pend>> ELSE <<>>)

\* C21: while the dispatch loop of a session is suspended in a copy_message
\* or about to report, the session is in the store with the selection that
\* send found, whatever presses of its buttons have arrived since; the
\* destinations the loop has called copy_message for are the first of that
\* selection, in its order, and all of it when the loop is over.
C21_SemAcoes ==
    \A k \in DOMAIN em_curso :
       LET t == em_curso[k] IN
       /\ Existe(t.handle)
       /\ Selecao(t.handle) = t.aceito
       /\ Len(Tentadas(t)) <= Len(t.aceito)
       /\ Tentadas(t) = SubSeq(t.aceito, 1, Len(Tentadas(t)))
       /\ t.pend = 0 => Tentadas(t) = t.aceito

\* a dispatch to two groups is suspended in its second copy_message while a
\* press of the button of a selected group, by the owner, waits in the queue
C21_Witness ==
    \E k \in DOMAIN em_curso, j \in DOMAIN fila :
       /\ Len(em_curso[k].aceito) = 2
       /\ Len(em_curso[k].d.copias) = 1
       /\ em_curso[k].pend # 0
       /\ fila[j].tipo = "callback"
       /\ fila[j].data = "select"
       /\ fila[j].handle = em_curso[k].handle
       /\ fila[j].user = em_curso[k].user
       /\ fila[j].grupo = em_curso[k].pend

\* ------------------------------------- commands through the update queue
\* adicionar_grupo (lines 255-304) for the command at the head of the queue:
\* the handler up to the reply_text it ends with (lines 265, 287, 298, or 159
\* inside rate_limit_check), in which it is suspended
iniciar_adicionar(gravou) ==
    LET upd == Head(fila) IN
    /\ Proxima("adicionargrupo")
    /\ adicionar_grupo(upd.user, upd.grupo, upd.data, gravou)
    /\ em_curso' = Append(em_curso, upd)

\* remover_grupo (lines 306-352) for the command at the head of the queue, up
\* to the reply_text it ends with
iniciar_remover(gravou) ==
    LET upd == Head(fila) IN
    /\ Proxima("removergrupo")
    /\ remover_grupo(upd.user, upd.grupo, gravou)
    /\ em_curso' = Append(em_curso, upd)

\* the reply_text that the handler k is suspended in returns or raises, and
\* the handler returns
concluir(k) ==
    /\ em_curso' = [j \in 1..(Len(em_curso) - 1) |->
                       IF j < k THEN em_curso[j] ELSE em_curso[j + 1]]
    /\ UNCHANGED <<registro, filtro_chat_id, MENSAGENS_PARA_REPOSTAR, rate_counters, now,
                   ultimo_prompt, botoes, fila, recebidas, evento, resposta, despacho,
                   marcados, antes, dupla, admitido, janela>>

\* The updates of SpecFila: /adicionargrupo and /removergrupo from the
\* administrators, put into the update queue as they come, also while a
\* command is in the hands of its handler, and taken from the queue one at a
\* time.
NextFila ==
    \/ \E u \in Range(ADMIN_IDS), g \in Dests, n \in Nomes :
          /\ recebidas < MaxComandos
          /\ Chegar(Atualizacao("adicionargrupo", u, 0, n, g))
    \/ \E u \in Range(ADMIN_IDS), g \in Dests :
          /\ recebidas < MaxComandos
          /\ Chegar(Atualizacao("removergrupo", u, 0, "Alpha", g))
    \/ \E gravou \in BOOLEAN : iniciar_adicionar(gravou)
    \/ \E gravou \in BOOLEAN : iniciar_remover(gravou)
    \/ \E k \in DOMAIN em_curso : concluir(k)

SpecFila == Init /\ [][NextFila]_vars

\* how often g is in the list s
Vezes(s, g) == Cardinality({i \in DOMAIN s : s[i] = g})

\* C26: commands that arrive while others wait or are being handled lose no
\* update and put no id twice: a /adicionargrupo that gets past the rate
\* limiter and the administrator check leaves its id in the list exactly
\* once and every other destination as often as it was, a /removergrupo
\* leaves its id out and every other destination as often as it was, and a
\* command that changed the list and wrote config.json leaves in the file the
\* whole configuration that memory holds, the changes of the commands before
\* it included.
C26_Serializado ==
    [][/\ \A u \in Actors, g \in Dests, n \in Nomes, gravou \in BOOLEAN :
             (/\ u \in Range(ADMIN_IDS)
              /\ adicionar_grupo(u, g, n, gravou)
              /\ admitido')
             => /\ Vezes(GRUPOS_DESTINO', g) = 1
                /\ \A x \in Dests \ {g} :
                      Vezes(GRUPOS_DESTINO', x) = Vezes(GRUPOS_DESTINO, x)
                /\ (gravou /\ GRUPOS_DESTINO' # GRUPOS_DESTINO)
                   => config_json' = Sanitizado(GRUPO_ORIGEM_ID', GRUPOS_DESTINO',
                                                ADMIN_IDS', GRUPOS_INFO')
       /\ \A u \in Actors, g \in Dests, gravou \in BOOLEAN :
             (/\ u \in Range(ADMIN_IDS)
              /\ remover_grupo(u, g, gravou)
              /\ admitido')
             => /\ Vezes(GRUPOS_DESTINO', g) = 0
                /\ \A x \in Dests \ {g} :
                      Vezes(GRUPOS_DESTINO', x) = Vezes(GRUPOS_DESTINO, x)
                /\ (gravou /\ GRUPOS_DESTINO' # GRUPOS_DESTINO)
                   => config_json' = Sanitizado(GRUPO_ORIGEM_ID', GRUPOS_DESTINO',
                                                ADMIN_IDS', GRUPOS_INFO')]_vars

\* two /adicionargrupo of one id that the loaded list did not hold, the
\* second received while the first was in the hands of its handler: the
\* second was told that the group is in the list, which holds it once, as
\* the file does
C26_Witness ==
    /\ Len(em_curso) = 1
    /\ em_curso[1].tipo = "adicionargrupo"
    /\ em_curso[1].conc
    /\ resposta = "JaNaLista"
    /\ evento.grupo = em_curso[1].grupo
    /\ Vezes(GRUPOS_DESTINO, evento.grupo) = 1
    /\ GRUPOS_DESTINO[Len(GRUPOS_DESTINO)] = evento.grupo
    /\ config_json = Sanitizado(GRUPO_ORIGEM_ID, GRUPOS_DESTINO, ADMIN_IDS, GRUPOS_INFO)
    /\ Len(GRUPOS_DESTINO) = 1

====
